---------------------------- MODULE Spec2Model ----------------------------
(***************************************************************************)
(* A model of bibtex-tidy's tidy() pipeline (src/unnamed/part_000):        *)
(* field normalization, duplicate detection and merging, sorting and       *)
(* serialization.                                                          *)
(*                                                                         *)
(* Strings that the code inspects character by character (field values,   *)
(* citation keys, entry types, comments) are sequences of one-character    *)
(* strings.  Field names and option names are atomic strings taken from    *)
(* a fixed vocabulary.                                                     *)
(***************************************************************************)
EXTENDS Integers, Sequences, FiniteSets, TLC

VARIABLES
    opts,         \* the Options object of this call, after lines 218-223
    input,        \* the text handed to tidy(), as a sequence of chunks
    items,        \* parser.parse(input); reordered in place by the sort
    keys,         \* Map: citation key -> id of the entry registered for it
    dois,         \* Map: doi signature -> id
    citations,    \* Map: citation signature -> id
    abstracts,    \* Map: abstract signature -> id
    sortIndexes,  \* Map: item id -> SortIndex (sort key name -> value)
    warnings,     \* Warning[]
    bibtex,       \* the output text, as a sequence of chunks
    entries,      \* the returned entry list
    pc,           \* the position of the call in tidy()
    i,            \* the loop variable of the loop the call is in
    run,          \* 1: tidy(input); 2: tidy() of the text the first call returned
    str,          \* argument of a direct call of escapeSpecialCharacters
    newstr        \* its result

vars == << opts, input, items, keys, dois, citations, abstracts, sortIndexes,
           warnings, bibtex, entries, pc, i, run, str, newstr >>

tidyVars == << opts, input, items, keys, dois, citations, abstracts,
               sortIndexes, warnings, bibtex, entries, i, run >>

-----------------------------------------------------------------------------
(* Bounds of the model.                                                    *)

\* longest argument of a direct call of escapeSpecialCharacters
MaxStrLen == 4

\* most items in an input text of the runs that merge
MaxItems == 3

\* most items in an input text of the runs that sort
MaxSortItems == 4

\* most items in an input text that is tidied twice
MaxTwiceItems == 2

\* most items in an input text of the runs that write comments
MaxCommentItems == 3

\* most items in an input text of the runs with an unrecognized strategy
MaxStrategyItems == 2

\* longest value of a field in the runs that render one value
MaxRenderLen == 3

\* longest value of a field in the runs that normalize one value
MaxValueLen == 5

-----------------------------------------------------------------------------
(* Characters and strings.                                                 *)

Range(s) == { s[n] : n \in DOMAIN s }

BACKSLASH == "\\"

Digits == { "0", "1", "2", "3", "4", "5", "6", "7", "8", "9" }

LowerAlphabet ==
    << "a", "b", "c", "d", "e", "f", "g", "h", "i", "j", "k", "l", "m",
       "n", "o", "p", "q", "r", "s", "t", "u", "v", "w", "x", "y", "z" >>

UpperAlphabet ==
    << "A", "B", "C", "D", "E", "F", "G", "H", "I", "J", "K", "L", "M",
       "N", "O", "P", "Q", "R", "S", "T", "U", "V", "W", "X", "Y", "Z" >>

LowerLetters == Range(LowerAlphabet)

UpperLetters == Range(UpperAlphabet)

\* \s of a JavaScript regular expression, over the characters used here
Whitespace == { " ", "\t", "\n" }

\* String.prototype.toLowerCase / toLocaleLowerCase, one character
LowerChar(c) ==
    IF c \in UpperLetters
    THEN LowerAlphabet[CHOOSE n \in DOMAIN UpperAlphabet : UpperAlphabet[n] = c]
    ELSE c

\* String.prototype.toLocaleUpperCase, one character
UpperChar(c) ==
    IF c \in LowerLetters
    THEN UpperAlphabet[CHOOSE n \in DOMAIN LowerAlphabet : LowerAlphabet[n] = c]
    ELSE c

toLowerCase(s) == [ n \in DOMAIN s |-> LowerChar(s[n]) ]

\* s.slice(from - 1), 1-based: the suffix of s starting at position from
Suffix(s, from) == SubSeq(s, from, Len(s))

\* s.slice(0, n)
Slice(s, n) == SubSeq(s, 1, IF Len(s) < n THEN Len(s) ELSE n)

\* String.prototype.trim
RECURSIVE trimStart(_)
trimStart(s) ==
    IF s # << >> /\ Head(s) \in Whitespace THEN trimStart(Tail(s)) ELSE s

RECURSIVE trimEnd(_)
trimEnd(s) ==
    IF s # << >> /\ s[Len(s)] \in Whitespace
    THEN trimEnd(SubSeq(s, 1, Len(s) - 1)) ELSE s

trim(s) == trimEnd(trimStart(s))

-----------------------------------------------------------------------------
(* Character Escaper.                                                      *)

\* new Map(unicode): the characters of the table that the repository's own
\* tests and comments show (# and _ in the strip-double-braces test, % in the
\* comment above the call, & in the documented example).
specialCharacters ==
    [ c \in { "#", "_", "&", "%" } |-> << BACKSLASH, c >> ]

\* A faulty variant of the escaper that never leaves escapeMode's initial value:
\* every table character is replaced, also the one after a backslash.
RECURSIVE escapeNoSkip(_, _, _)
escapeNoSkip(s, n, escapeMode) ==
    IF n > Len(s) THEN << >>
    ELSE IF s[n] = BACKSLASH
         THEN << s[n] >> \o escapeNoSkip(s, n + 1, FALSE)
         ELSE (IF s[n] \in DOMAIN specialCharacters
               THEN specialCharacters[s[n]] ELSE << s[n] >>)
              \o escapeNoSkip(s, n + 1, FALSE)

\* The loop of escapeSpecialCharacters from character n on, newstr being
\* what it appends from there.
RECURSIVE escapeFrom(_, _, _)
escapeFrom(s, n, escapeMode) ==
    IF n > Len(s) THEN << >>
    ELSE IF escapeMode
         THEN << s[n] >> \o escapeFrom(s, n + 1, FALSE)
         ELSE IF s[n] = BACKSLASH
              THEN << s[n] >> \o escapeFrom(s, n + 1, TRUE)
              ELSE (IF s[n] \in DOMAIN specialCharacters
                    THEN specialCharacters[s[n]] ELSE << s[n] >>)
                   \o escapeFrom(s, n + 1, FALSE)

escapeSpecialCharacters(s) == escapeFrom(s, 1, FALSE)

-----------------------------------------------------------------------------
(* Field Normalizer: the regular-expression replacements of lines 272-284. *)

\* the index of the last character of the maximal whitespace run that
\* starts at n (n - 1 when s[n] is no whitespace)
RECURSIVE SpaceRunEnd(_, _)
SpaceRunEnd(s, n) ==
    IF n <= Len(s) /\ s[n] \in Whitespace THEN SpaceRunEnd(s, n + 1) ELSE n - 1

\* .replace(/\s*\n\s*/g, ' '): a whitespace run that holds a newline
\* becomes one space; a run without a newline is left as it is
RECURSIVE collapseNewlines(_, _)
collapseNewlines(s, n) ==
    IF n > Len(s) THEN << >>
    ELSE LET e == SpaceRunEnd(s, n)
         IN  IF e >= n /\ \E m \in n..e : s[m] = "\n"
             THEN << " " >> \o collapseNewlines(s, e + 1)
             ELSE << s[n] >> \o collapseNewlines(s, n + 1)

\* .replace(/^\{([^{}]*)\}$/g, '$1')
stripBraces(s) ==
    IF /\ Len(s) >= 2
       /\ s[1] = "{"
       /\ s[Len(s)] = "}"
       /\ \A m \in 2..(Len(s) - 1) : s[m] \notin { "{", "}" }
    THEN SubSeq(s, 2, Len(s) - 1)
    ELSE s

\* \w of a regular expression
WordChars == Digits \cup LowerLetters \cup UpperLetters \cup { "_" }

\* the index of the last character of the maximal run of non-whitespace
\* that starts at n
RECURSIVE NonSpaceRunEnd(_, _)
NonSpaceRunEnd(s, n) ==
    IF n <= Len(s) /\ s[n] \notin Whitespace
    THEN NonSpaceRunEnd(s, n + 1) ELSE n - 1

\* titleCase: .replace(/(\w)(\S*)/g, first.toLocaleUpperCase() + rest.toLocaleLowerCase())
RECURSIVE titleCaseFrom(_, _)
titleCaseFrom(s, n) ==
    IF n > Len(s) THEN << >>
    ELSE IF s[n] \in WordChars
         THEN LET e == NonSpaceRunEnd(s, n)
              IN  << UpperChar(s[n]) >> \o toLowerCase(SubSeq(s, n + 1, e))
                  \o titleCaseFrom(s, e + 1)
         ELSE << s[n] >> \o titleCaseFrom(s, n + 1)

titleCase(s) == titleCaseFrom(s, 1)

\* val.match(/^[^a-z]+$/)
isAllCaps(s) == s # << >> /\ \A n \in DOMAIN s : s[n] \notin LowerLetters

\* .replace(/\\?_/g, '\\%5F')
RECURSIVE encodeUnderscores(_, _)
encodeUnderscores(s, n) ==
    IF n > Len(s) THEN << >>
    ELSE IF s[n] = BACKSLASH /\ n < Len(s) /\ s[n + 1] = "_"
         THEN << BACKSLASH, "%", "5", "F" >> \o encodeUnderscores(s, n + 2)
         ELSE IF s[n] = "_"
              THEN << BACKSLASH, "%", "5", "F" >> \o encodeUnderscores(s, n + 1)
              ELSE << s[n] >> \o encodeUnderscores(s, n + 1)

\* where a match of /(\d)\s*-\s*(\d)/ that starts at n ends (0: no match)
PageMatchEnd(s, n) ==
    IF n > Len(s) \/ s[n] \notin Digits THEN 0
    ELSE LET d == SpaceRunEnd(s, n + 1) + 1        \* where the dash must be
         IN  IF d > Len(s) \/ s[d] # "-" THEN 0
             ELSE LET q == SpaceRunEnd(s, d + 1) + 1   \* the second digit
                  IN  IF q <= Len(s) /\ s[q] \in Digits THEN q ELSE 0

\* .replace(/(\d)\s*-\s*(\d)/g, '$1--$2'): the matches are found left to
\* right and do not overlap, the scan resuming after the second digit
RECURSIVE pageRange(_, _)
pageRange(s, n) ==
    IF n > Len(s) THEN << >>
    ELSE LET q == PageMatchEnd(s, n)
         IN  IF q > 0
             THEN << s[n], "-", "-", s[q] >> \o pageRange(s, q + 1)
             ELSE << s[n] >> \o pageRange(s, n + 1)

\* field.name.toLocaleLowerCase(), over the vocabulary of field names
lowerName(name) ==
    CASE name = "Title" -> "title"
      [] name = "PAGES" -> "pages"
      [] name = "DOI" -> "doi"
      [] OTHER -> name

\* lines 268-285: the normalized value of one field
normalizeValue(o, lname, field) ==
    IF field.datatype = "concatinate" THEN field.raw
    ELSE LET v1 == trim(collapseNewlines(field.value, 1))
             v2 == IF o.stripEnclosingBraces THEN stripBraces(v1) ELSE v1
             v3 == IF o.dropAllCaps /\ isAllCaps(v2) THEN titleCase(v2) ELSE v2
             v4 == IF lname = "url" /\ o.encodeUrls
                   THEN encodeUnderscores(v3, 1) ELSE v3
             v5 == IF o.escape THEN escapeSpecialCharacters(v4) ELSE v4
             v6 == IF lname = "pages" THEN pageRange(v5, 1) ELSE v5
         IN  v6

\* Map.prototype.has / get / set on a fieldMap, an insertion-ordered map
\* kept as a sequence of [name, value, datatype]
mapHas(fieldMap, k) == \E n \in DOMAIN fieldMap : fieldMap[n].name = k

mapGet(fieldMap, k) ==
    fieldMap[CHOOSE n \in DOMAIN fieldMap : fieldMap[n].name = k]

mapSet(fieldMap, k, v) ==
    IF mapHas(fieldMap, k)
    THEN [ n \in DOMAIN fieldMap |->
             IF fieldMap[n].name = k
             THEN [ name |-> k, value |-> v.value, datatype |-> v.datatype ]
             ELSE fieldMap[n] ]
    ELSE Append(fieldMap,
                [ name |-> k, value |-> v.value, datatype |-> v.datatype ])

\* lines 264-290: item.fieldMap built from item.fields, field n onwards
RECURSIVE buildFieldMap(_, _, _, _)
buildFieldMap(o, fields, n, fieldMap) ==
    IF n > Len(fields) THEN fieldMap
    ELSE LET field == fields[n]
             lname == lowerName(field.name)
         IN  IF lname \in o.omit \/ mapHas(fieldMap, lname)
             THEN buildFieldMap(o, fields, n + 1, fieldMap)
             ELSE buildFieldMap(o, fields, n + 1,
                    mapSet(fieldMap, lname,
                           [ value |-> trim(normalizeValue(o, lname, field)),
                             datatype |-> field.datatype ]))

-----------------------------------------------------------------------------
(* The text and the parser's items.                                        *)
(*                                                                         *)
(* A text is a sequence of chunks, one per item of the text:               *)
(*   entry     @type{key, name = text, ...}   (fields: [name, text], the   *)
(*             text with its delimiters: {..}, ".." or bare)               *)
(*   string    @string{key = text}                                         *)
(*   preamble  @preamble{text}                                             *)
(*   comment   the text between two of the above                           *)

Chunk(itemtype, type, key, fields, text) ==
    [ itemtype |-> itemtype, type |-> type, key |-> key,
      fields |-> fields, text |-> text ]

isNumberText(t) == t # << >> /\ \A n \in DOMAIN t : t[n] \in Digits

\* where the brace that is open at depth `depth` before character n closes
\* (0: nowhere)
RECURSIVE matchingBrace(_, _, _)
matchingBrace(t, n, depth) ==
    IF n > Len(t) THEN 0
    ELSE IF t[n] = "{" THEN matchingBrace(t, n + 1, depth + 1)
    ELSE IF t[n] = "}"
         THEN (IF depth = 1 THEN n ELSE matchingBrace(t, n + 1, depth - 1))
    ELSE matchingBrace(t, n + 1, depth)

\* the field the parser makes of name = text: a value in one pair of
\* braces or of quotes, a number, a concatenation (parts joined by #), or
\* an identifier
parseField(f) ==
    LET t == f.text
        inner == SubSeq(t, 2, Len(t) - 1)
        isBraced == /\ Len(t) >= 2 /\ t[1] = "{"
                    /\ matchingBrace(t, 2, 1) = Len(t)
        isQuoted == /\ Len(t) >= 2 /\ t[1] = "\"" /\ t[Len(t)] = "\""
                    /\ "\"" \notin Range(inner)
    IN  IF isBraced
        THEN [ name |-> f.name, value |-> inner, datatype |-> "braced", raw |-> t ]
        ELSE IF isQuoted
        THEN [ name |-> f.name, value |-> inner, datatype |-> "quoted", raw |-> t ]
        ELSE IF isNumberText(t)
        THEN [ name |-> f.name, value |-> t, datatype |-> "number", raw |-> t ]
        ELSE IF "#" \in Range(t)
        THEN [ name |-> f.name, value |-> t, datatype |-> "concatinate", raw |-> t ]
        ELSE [ name |-> f.name, value |-> t, datatype |-> "identifier", raw |-> t ]

\* parser.parse(input): one item per chunk, in the order of the text.  id
\* is the item's identity (its place in the parser's list); fieldMap is
\* absent (empty here) until the first loop sets it.
parse(text) ==
    [ n \in DOMAIN text |->
        [ id |-> n,
          itemtype |-> text[n].itemtype,
          type |-> text[n].type,
          key |-> text[n].key,
          fields |-> [ m \in DOMAIN text[n].fields |-> parseField(text[n].fields[m]) ],
          fieldMap |-> << >>,
          duplicate |-> FALSE,
          raw |-> text[n].text ] ]

\* the place in items of the item with this identity
indexOf(its, id) == CHOOSE n \in DOMAIN its : its[n].id = id

itemOf(its, id) == its[indexOf(its, id)]

-----------------------------------------------------------------------------
(* Options.                                                                *)

DEFAULT_ENTRY_ORDER == << "key" >>

DEFAULT_INDEX_STRATEGY == << "doi", "citation", "abstract" >>

DEFAULT_FIELD_ORDER ==
    << "title", "shorttitle", "author", "year", "month", "day", "journal",
       "booktitle", "location", "on", "publisher", "address", "series",
       "volume", "number", "pages", "doi", "isbn", "issn", "url",
       "urldate", "copyright", "category", "note", "metadata" >>

MONTHS ==
    { << "j", "a", "n" >>, << "f", "e", "b" >>, << "m", "a", "r" >>,
      << "a", "p", "r" >>, << "m", "a", "y" >>, << "j", "u", "n" >>,
      << "j", "u", "l" >>, << "a", "u", "g" >>, << "s", "e", "p" >>,
      << "o", "c", "t" >>, << "n", "o", "v" >>, << "d", "e", "c" >> }

\* the defaults of the destructured parameter (lines 195-211), with sort,
\* sortFields and merge as lines 218-222 leave them: a list, empty for false
DefaultOptions ==
    [ omit |-> { }, curly |-> FALSE, numeric |-> FALSE, sort |-> << >>,
      merge |-> << >>, stripEnclosingBraces |-> FALSE, dropAllCaps |-> FALSE,
      escape |-> TRUE, sortFields |-> << >>, stripComments |-> FALSE,
      encodeUrls |-> FALSE, tidyComments |-> TRUE, mergeStrategy |-> "combine" ]

\* the insertion order of a Set or of the keys of a Map: the names in
\* order, each once
RECURSIVE uniqueNames(_, _)
uniqueNames(names, seen) ==
    IF names = << >> THEN << >>
    ELSE IF Head(names) \in seen THEN uniqueNames(Tail(names), seen)
    ELSE << Head(names) >> \o uniqueNames(Tail(names), seen \cup { Head(names) })

\* A faulty variant of the construction that sets key first when it was not
\* requested, the requested criteria following it.
uniqCheckKeyFirst(o) ==
    (IF \E n \in DOMAIN o.merge : o.merge[n] = "key" THEN << >>
     ELSE << [ key |-> "key", merge |-> FALSE ] >>)
    \o [ n \in DOMAIN uniqueNames(o.merge, { }) |->
           [ key |-> uniqueNames(o.merge, { })[n], merge |-> TRUE ] ]

\* lines 225-235: the criteria in the insertion order of the Map, each with
\* its merge flag
uniqCheck(o) ==
    [ n \in DOMAIN uniqueNames(o.merge, { }) |->
        [ key |-> uniqueNames(o.merge, { })[n], merge |-> TRUE ] ]
    \o (IF \E n \in DOMAIN o.merge : o.merge[n] = "key" THEN << >>
        ELSE << [ key |-> "key", merge |-> FALSE ] >>)

-----------------------------------------------------------------------------
(* Duplicate Index.                                                        *)

\* how many characters of the title and of the abstract enter a signature
TitleSignatureLength == 50

AbstractSignatureLength == 100

\* .replace(/[^0-9A-Za-z]/g, '').toLocaleLowerCase()
alphaNum(s) ==
    toLowerCase(SelectSeq(s, LAMBDA c :
        c \in Digits \cup LowerLetters \cup UpperLetters))

\* item.fieldMap.get(k)?.value, with '' for undefined: every use below
\* treats the two alike (!x, ?? '')
valueOf(fieldMap, k) ==
    IF mapHas(fieldMap, k) THEN mapGet(fieldMap, k).value ELSE << >>

\* aut.split(/,| and/)[0]
RECURSIVE firstAuthor(_, _)
firstAuthor(s, n) ==
    IF n > Len(s) THEN << >>
    ELSE IF s[n] = "," THEN << >>
    ELSE IF n + 3 <= Len(s) /\ SubSeq(s, n, n + 3) = << " ", "a", "n", "d" >>
         THEN << >>
    ELSE << s[n] >> \o firstAuthor(s, n + 1)

\* the "continue" of each case of the switch: the entry has no signature
hasNoSignature(key, item) ==
    CASE key = "key" -> item.key = << >>
      [] key = "doi" -> alphaNum(valueOf(item.fieldMap, "doi")) = << >>
      [] key = "citation" ->
            \/ valueOf(item.fieldMap, "title") = << >>
            \/ valueOf(item.fieldMap, "author") = << >>
      [] key = "abstract" ->
            Slice(alphaNum(valueOf(item.fieldMap, "abstract")),
                  AbstractSignatureLength) = << >>
      [] OTHER -> TRUE

signature(key, item) ==
    CASE key = "key" -> item.key
      [] key = "doi" -> alphaNum(valueOf(item.fieldMap, "doi"))
      [] key = "citation" ->
            alphaNum(firstAuthor(valueOf(item.fieldMap, "author"), 1))
            \o << ":" >>
            \o Slice(alphaNum(valueOf(item.fieldMap, "title")),
                     TitleSignatureLength)
      [] key = "abstract" ->
            Slice(alphaNum(valueOf(item.fieldMap, "abstract")),
                  AbstractSignatureLength)

\* Map.prototype.set on one of keys / dois / citations / abstracts
indexSet(index, sig, id) ==
    [ x \in DOMAIN index \cup { sig } |-> IF x = sig THEN id ELSE index[x] ]

\* the Map of a criterion, in the record of the four
indexFor(st, key) ==
    CASE key = "key" -> st.keys
      [] key = "doi" -> st.dois
      [] key = "citation" -> st.citations
      [] key = "abstract" -> st.abstracts

withIndex(st, key, index) ==
    CASE key = "key" -> [ st EXCEPT !.keys = index ]
      [] key = "doi" -> [ st EXCEPT !.dois = index ]
      [] key = "citation" -> [ st EXCEPT !.citations = index ]
      [] key = "abstract" -> [ st EXCEPT !.abstracts = index ]

\* A faulty variant of the loop without the break of line 354: after a match
\* the later criteria are still evaluated, and the entry is registered
\* under those it does not match.
RECURSIVE checkDuplicateNoBreak(_, _, _, _)
checkDuplicateNoBreak(uniq, n, item, st) ==
    IF n > Len(uniq) THEN st
    ELSE LET key == uniq[n].key
         IN  IF hasNoSignature(key, item)
             THEN checkDuplicateNoBreak(uniq, n + 1, item, st)
             ELSE LET sig == signature(key, item)
                      index == indexFor(st, key)
                  IN  IF sig \in DOMAIN index
                      THEN checkDuplicateNoBreak(uniq, n + 1, item,
                             IF st.duplicateOf # 0 THEN st
                             ELSE [ st EXCEPT !.duplicateOf = index[sig],
                                              !.criterion = key,
                                              !.merge = uniq[n].merge ])
                      ELSE checkDuplicateNoBreak(uniq, n + 1, item,
                             withIndex(st, key, indexSet(index, sig, item.id)))

\* lines 292-325 and 354: the loop over uniqCheck from criterion n on.  The
\* result holds the four Maps as the loop leaves them, duplicateOf (0 for
\* undefined), and the criterion that matched with its merge flag.
RECURSIVE checkDuplicate(_, _, _, _)
checkDuplicate(uniq, n, item, st) ==
    IF n > Len(uniq) THEN st
    ELSE LET key == uniq[n].key
         IN  IF hasNoSignature(key, item)
             THEN checkDuplicate(uniq, n + 1, item, st)
             ELSE LET sig == signature(key, item)
                      index == indexFor(st, key)
                  IN  IF sig \in DOMAIN index
                      THEN [ st EXCEPT !.duplicateOf = index[sig],
                                       !.criterion = key,
                                       !.merge = uniq[n].merge ]
                      ELSE checkDuplicate(uniq, n + 1, item,
                             withIndex(st, key, indexSet(index, sig, item.id)))

-----------------------------------------------------------------------------
(* Merge Resolver.                                                         *)

\* lines 343-345
RECURSIVE overwriteInto(_, _, _)
overwriteInto(target, source, n) ==
    IF n > Len(source) THEN target
    ELSE overwriteInto(mapSet(target, source[n].name, source[n]), source, n + 1)

\* A faulty variant of combine that leaves out the test of line 339: a field
\* that the kept entry has is set again.
RECURSIVE combineWithoutTest(_, _, _)
combineWithoutTest(target, source, n) ==
    IF n > Len(source) THEN target
    ELSE combineWithoutTest(mapSet(target, source[n].name, source[n]),
                            source, n + 1)

\* lines 338-340, from field n of item.fieldMap on
RECURSIVE combineInto(_, _, _)
combineInto(target, source, n) ==
    IF n > Len(source) THEN target
    ELSE combineInto(
           IF mapHas(target, source[n].name) THEN target
           ELSE mapSet(target, source[n].name, source[n]),
           source, n + 1)

\* A faulty variant of the merge that rebuilds the kept entry's map from the
\* absorbed entry's map whatever the strategy.
mergedReplacing(mergeStrategy, duplicateOf, item) ==
    [ duplicateOf EXCEPT !.fieldMap = item.fieldMap ]

\* lines 334-346: duplicateOf after item was merged into it
merged(mergeStrategy, duplicateOf, item) ==
    CASE mergeStrategy = "last" ->
            [ duplicateOf EXCEPT !.fields = item.fields ]
      [] mergeStrategy = "combine" ->
            [ duplicateOf EXCEPT
                !.fieldMap = combineInto(duplicateOf.fieldMap, item.fieldMap, 1) ]
      [] mergeStrategy = "overwrite" ->
            [ duplicateOf EXCEPT
                !.fieldMap = overwriteInto(duplicateOf.fieldMap, item.fieldMap, 1) ]
      [] OTHER -> duplicateOf

Warning(code, entry, duplicateOf) ==
    [ code |-> code, entry |-> entry, duplicateOf |-> duplicateOf ]

-----------------------------------------------------------------------------
(* Sort Planner.                                                           *)

\* key.startsWith('-') and key.slice(1), over the vocabulary of sort keys
startsWithDash(key) == key \in { "-key", "-type", "-year", "-title" }

stripDash(key) ==
    CASE key = "-key" -> "key"
      [] key = "-type" -> "type"
      [] key = "-year" -> "year"
      [] key = "-title" -> "title"
      [] OTHER -> key

\* the character U+FFF0 of line 397
SENTINEL == "uFFF0"

\* the order of the characters under localeCompare: punctuation, digits,
\* letters, and U+FFF0 after them all
CollationOrder ==
    << " ", "_", "-", ",", ":", "\"", "&", "#", "%", "{", "}", BACKSLASH >>
    \o << "0", "1", "2", "3", "4", "5", "6", "7", "8", "9" >>
    \o LowerAlphabet \o << SENTINEL >>

rank(c) ==
    LET l == LowerChar(c)
    IN  IF l \in Range(CollationOrder)
        THEN CHOOSE n \in DOMAIN CollationOrder : CollationOrder[n] = l
        ELSE 0

\* a.localeCompare(b): negative, zero or positive
RECURSIVE localeCompare(_, _)
localeCompare(a, b) ==
    IF a = << >> /\ b = << >> THEN 0
    ELSE IF a = << >> THEN -1
    ELSE IF b = << >> THEN 1
    ELSE IF rank(Head(a)) < rank(Head(b)) THEN -1
    ELSE IF rank(Head(a)) > rank(Head(b)) THEN 1
    ELSE localeCompare(Tail(a), Tail(b))

\* lines 374-382: the value an entry is sorted by under a (dash-free) key
sortValue(item, key) ==
    toLowerCase(
        CASE key = "key" -> item.key
          [] key = "type" -> item.type
          [] OTHER -> valueOf(item.fieldMap, key))

\* lines 370-383: the SortIndex of an entry
sortIndexOf(o, item) ==
    [ key \in { stripDash(o.sort[n]) : n \in DOMAIN o.sort } |->
        sortValue(item, key) ]

\* lines 384-388: sortIndexes.set for the entry and for every item of
\* preceedingMeta
setSortIndexes(idx, ids, sortIndex) ==
    [ x \in DOMAIN idx \cup ids |-> IF x \in ids THEN sortIndex ELSE idx[x] ]

\* A faulty variant of the loop that indexes the entries only: the items of
\* preceedingMeta get no sort index.
RECURSIVE buildSortIndexesOfEntries(_, _, _, _, _)
buildSortIndexesOfEntries(o, its, n, preceedingMeta, idx) ==
    IF n > Len(its) THEN idx
    ELSE IF its[n].itemtype # "entry"
         THEN buildSortIndexesOfEntries(o, its, n + 1, preceedingMeta, idx)
         ELSE buildSortIndexesOfEntries(o, its, n + 1, { },
                setSortIndexes(idx, { its[n].id }, sortIndexOf(o, its[n])))

\* lines 361-389: the loop from item n on, preceedingMeta holding the ids
\* of the non-entry items seen since the last entry
RECURSIVE buildSortIndexes(_, _, _, _, _)
buildSortIndexes(o, its, n, preceedingMeta, idx) ==
    IF n > Len(its) THEN idx
    ELSE IF its[n].itemtype # "entry"
         THEN buildSortIndexes(o, its, n + 1,
                               preceedingMeta \cup { its[n].id }, idx)
         ELSE buildSortIndexes(o, its, n + 1, { },
                setSortIndexes(idx, preceedingMeta \cup { its[n].id },
                               sortIndexOf(o, its[n])))

\* lines 397-398: sortIndexes.get(a)?.get(key) ?? U+FFF0
indexValue(idx, a, key) ==
    IF a.id \in DOMAIN idx /\ key \in DOMAIN idx[a.id]
    THEN idx[a.id][key]
    ELSE << SENTINEL >>

\* lines 395-400: the comparator of the pass for one key
compareItems(idx, key, desc, a, b) ==
    LET ia == indexValue(idx, a, key)
        ib == indexValue(idx, b, key)
    IN  localeCompare(IF desc THEN ib ELSE ia, IF desc THEN ia ELSE ib)

\* A faulty variant of the insertion that puts an item before the items it
\* compares equal to: the sort is no longer stable.
RECURSIVE insertBeforeEqual(_, _, _, _, _, _)
insertBeforeEqual(sorted, x, j, idx, key, desc) ==
    IF j = 0 \/ compareItems(idx, key, desc, x, sorted[j]) > 0
    THEN SubSeq(sorted, 1, j) \o << x >> \o SubSeq(sorted, j + 1, Len(sorted))
    ELSE insertBeforeEqual(sorted, x, j - 1, idx, key, desc)

\* Array.prototype.sort on an array this short is an insertion sort: x
\* goes after the last item that it does not compare below
RECURSIVE insertSorted(_, _, _, _, _, _)
insertSorted(sorted, x, j, idx, key, desc) ==
    IF j = 0 \/ compareItems(idx, key, desc, x, sorted[j]) >= 0
    THEN SubSeq(sorted, 1, j) \o << x >> \o SubSeq(sorted, j + 1, Len(sorted))
    ELSE insertSorted(sorted, x, j - 1, idx, key, desc)

RECURSIVE sortFrom(_, _, _, _, _, _)
sortFrom(its, n, sorted, idx, key, desc) ==
    IF n > Len(its) THEN sorted
    ELSE sortFrom(its, n + 1,
                  insertSorted(sorted, its[n], Len(sorted), idx, key, desc),
                  idx, key, desc)

\* line 395: items.sort(comparator of sort[n])
sortPass(o, its, idx, n) ==
    sortFrom(its, 1, << >>, idx, stripDash(o.sort[n]), startsWithDash(o.sort[n]))

-----------------------------------------------------------------------------
(* Serializer.                                                             *)

\* the text appended to the output: text that follows a comment chunk
\* continues it
appendText(out, t) ==
    IF t = << >> THEN out
    ELSE IF out # << >> /\ out[Len(out)].itemtype = "comment"
    THEN [ out EXCEPT ![Len(out)].text = @ \o t ]
    ELSE Append(out, Chunk("comment", << >>, << >>, << >>, t))

\* val.match(/^[1-9][0-9]*$/)
isNumeric(val) ==
    /\ val # << >>
    /\ val[1] \in Digits \ { "0" }
    /\ \A n \in DOMAIN val : val[n] \in Digits

\* lines 444-456: the text of one value
renderValue(o, k, field) ==
    LET val == field.value
        dig3 == toLowerCase(Slice(val, 3))
    IN  IF o.numeric /\ isNumeric(val) THEN val
        ELSE IF o.numeric /\ k = "month" /\ dig3 \in MONTHS THEN dig3
        ELSE IF field.datatype = "braced" \/ o.curly
             THEN << "{" >> \o val \o << "}" >>
        ELSE IF field.datatype = "quoted"
             THEN << "\"" >> \o val \o << "\"" >>
        ELSE val

\* lines 436-439
sortedFieldNames(o, item) ==
    uniqueNames(o.sortFields \o [ n \in DOMAIN item.fieldMap |-> item.fieldMap[n].name ],
                { })

\* lines 440-457: the fields of the entry as written
renderFields(o, item) ==
    LET present == SelectSeq(sortedFieldNames(o, item),
                             LAMBDA k : mapHas(item.fieldMap, k))
    IN  [ n \in DOMAIN present |->
            [ name |-> present[n],
              text |-> renderValue(o, present[n], mapGet(item.fieldMap, present[n])) ] ]

\* item.comment.replace(/^[ \t]*\n|[ \t]*$/g, '')
RECURSIVE dropBlanksEnd(_)
dropBlanksEnd(s) ==
    IF s # << >> /\ s[Len(s)] \in { " ", "\t" }
    THEN dropBlanksEnd(SubSeq(s, 1, Len(s) - 1)) ELSE s

RECURSIVE blankLineEnd(_, _)
blankLineEnd(s, n) ==
    IF n > Len(s) THEN 0
    ELSE IF s[n] = "\n" THEN n
    ELSE IF s[n] \in { " ", "\t" } THEN blankLineEnd(s, n + 1)
    ELSE 0

untidiedComment(s) ==
    dropBlanksEnd(Suffix(s, blankLineEnd(s, 1) + 1))

\* lines 418-427
renderComment(o, item) ==
    IF o.tidyComments
    THEN (IF trim(item.raw) # << >> THEN trim(item.raw) \o << "\n" >> ELSE << >>)
    ELSE untidiedComment(item.raw)

\* A faulty variant of the serializer that writes every entry, dropped or not.
serializedWithDuplicates(o, out, item) ==
    CASE item.itemtype = "string" ->
            Append(out, Chunk("string", << >>, item.key, << >>, item.raw))
      [] item.itemtype = "preamble" ->
            Append(out, Chunk("preamble", << >>, << >>, << >>, item.raw))
      [] item.itemtype = "comment" ->
            IF o.stripComments THEN out ELSE appendText(out, renderComment(o, item))
      [] item.itemtype = "entry" ->
            Append(out, Chunk("entry", toLowerCase(item.type), item.key,
                              renderFields(o, item), << >>))

\* lines 407-461: the output after one item was written
serialized(o, out, item) ==
    CASE item.itemtype = "string" ->
            Append(out, Chunk("string", << >>, item.key, << >>, item.raw))
      [] item.itemtype = "preamble" ->
            Append(out, Chunk("preamble", << >>, << >>, << >>, item.raw))
      [] item.itemtype = "comment" ->
            IF o.stripComments THEN out ELSE appendText(out, renderComment(o, item))
      [] item.itemtype = "entry" ->
            IF item.duplicate THEN out
            ELSE Append(out, Chunk("entry", toLowerCase(item.type), item.key,
                                   renderFields(o, item), << >>))

\* bibtex.endsWith('\n'): an entry, a string and a preamble end with one
endsWithNewline(out) ==
    /\ out # << >>
    /\ \/ out[Len(out)].itemtype # "comment"
       \/ out[Len(out)].text[Len(out[Len(out)].text)] = "\n"

-----------------------------------------------------------------------------
(* Pipeline Orchestrator: tidy().                                          *)

\* where the call goes when the loop of lines 253-356 is over (line 359)
afterFirstLoop(o) == IF o.sort # << >> THEN "sortIndex" ELSE "output"

\* where it goes when the sort is over: the loop of line 406, or past it
outputOrReturn(its) == IF its = << >> THEN "return" ELSE "output"

\* line 239
Parse ==
    /\ pc = "parse"
    /\ items' = parse(input)
    /\ i' = 1
    /\ pc' = IF input # << >> THEN "normalize"
             ELSE IF afterFirstLoop(opts) = "sortIndex" THEN "sortIndex"
             ELSE "return"
    /\ UNCHANGED << opts, input, keys, dois, citations, abstracts, sortIndexes,
                    warnings, bibtex, entries, run, str, newstr >>

\* lines 255-261
missingKeyWarnings(item) ==
    IF item.key = << >> THEN << Warning("MISSING_KEY", item.id, 0) >> ELSE << >>

\* lines 326-353: the warning of a match
duplicateWarning(st, item) ==
    IF st.merge
    THEN Warning("DUPLICATE_ENTRY", item.id, st.duplicateOf)
    ELSE Warning("DUPLICATE_KEY", item.id, 0)

\* A faulty variant of the flagging that sets the flag on every match,
\* merge-enabled or not.
flaggedOnAnyMatch(st, item) ==
    IF st.duplicateOf # 0
    THEN [ item EXCEPT !.duplicate = TRUE ]
    ELSE item

\* line 327: the entry after its duplicate check
flagged(st, item) ==
    IF st.duplicateOf # 0 /\ st.merge
    THEN [ item EXCEPT !.duplicate = TRUE ]
    ELSE item

\* one iteration of the loop of lines 253-356
ProcessItem ==
    /\ pc = "normalize"
    /\ LET item == items[i]
           withMap == [ item EXCEPT
                          !.fieldMap = buildFieldMap(opts, item.fields, 1, << >>) ]
           st == checkDuplicate(uniqCheck(opts), 1, withMap,
                    [ keys |-> keys, dois |-> dois, citations |-> citations,
                      abstracts |-> abstracts, duplicateOf |-> 0,
                      criterion |-> "", merge |-> FALSE ])
           own == [ items EXCEPT ![i] = flagged(st, withMap) ]
       IN  IF item.itemtype # "entry"
           THEN UNCHANGED << items, keys, dois, citations, abstracts, warnings >>
           ELSE /\ keys' = st.keys
                /\ dois' = st.dois
                /\ citations' = st.citations
                /\ abstracts' = st.abstracts
                /\ warnings' = warnings \o missingKeyWarnings(item)
                                 \o (IF st.duplicateOf # 0
                                     THEN << duplicateWarning(st, item) >>
                                     ELSE << >>)
                /\ items' = IF st.duplicateOf # 0 /\ st.merge
                            THEN [ own EXCEPT ![indexOf(items, st.duplicateOf)] =
                                     merged(opts.mergeStrategy, @, withMap) ]
                            ELSE own
    /\ IF i < Len(items)
       THEN /\ i' = i + 1
            /\ pc' = pc
       ELSE /\ i' = 1
            /\ pc' = IF afterFirstLoop(opts) = "sortIndex" THEN "sortIndex"
                     ELSE outputOrReturn(items)
    /\ UNCHANGED << opts, input, sortIndexes, bibtex, entries, run, str, newstr >>

\* lines 361-389
BuildSortIndexes ==
    /\ pc = "sortIndex"
    /\ sortIndexes' = buildSortIndexes(opts, items, 1, { }, sortIndexes)
    /\ i' = Len(opts.sort)
    /\ pc' = "sort"
    /\ UNCHANGED << opts, input, items, keys, dois, citations, abstracts,
                    warnings, bibtex, entries, run, str, newstr >>

\* one iteration of the loop of lines 392-401: the pass for sort[i]
SortPass ==
    /\ pc = "sort"
    /\ items' = sortPass(opts, items, sortIndexes, i)
    /\ IF i > 1
       THEN /\ i' = i - 1
            /\ pc' = pc
       ELSE /\ i' = 1
            /\ pc' = outputOrReturn(items)
    /\ UNCHANGED << opts, input, keys, dois, citations, abstracts, sortIndexes,
                    warnings, bibtex, entries, run, str, newstr >>

\* line 459: delete item.fieldMap, for an entry that was written
written(item) ==
    IF item.itemtype = "entry" /\ ~item.duplicate
    THEN [ item EXCEPT !.fieldMap = << >> ]
    ELSE item

\* one iteration of the loop of lines 406-462
SerializeItem ==
    /\ pc = "output"
    /\ bibtex' = serialized(opts, bibtex, items[i])
    /\ items' = [ items EXCEPT ![i] = written(@) ]
    /\ IF i < Len(items)
       THEN /\ i' = i + 1
            /\ pc' = pc
       ELSE /\ i' = 1
            /\ pc' = "return"
    /\ UNCHANGED << opts, input, keys, dois, citations, abstracts, sortIndexes,
                    warnings, entries, run, str, newstr >>

\* lines 464-470
Return ==
    /\ pc = "return"
    /\ bibtex' = IF endsWithNewline(bibtex) THEN bibtex
                 ELSE appendText(bibtex, << "\n" >>)
    /\ entries' = SelectSeq(items, LAMBDA item : item.itemtype = "entry")
    /\ pc' = "done"
    /\ UNCHANGED << opts, input, items, keys, dois, citations, abstracts,
                    sortIndexes, warnings, i, run, str, newstr >>

\* tidy() called again, with the same options, on the text it returned
TidyAgain ==
    /\ pc = "done"
    /\ run = 1
    /\ input' = bibtex
    /\ run' = 2
    /\ items' = << >>
    /\ keys' = << >>
    /\ dois' = << >>
    /\ citations' = << >>
    /\ abstracts' = << >>
    /\ sortIndexes' = << >>
    /\ warnings' = << >>
    /\ bibtex' = << >>
    /\ entries' = << >>
    /\ i' = 1
    /\ pc' = "parse"
    /\ UNCHANGED << opts, str, newstr >>

\* a direct call of escapeSpecialCharacters(str)
EscapeCall ==
    /\ pc = "escape"
    /\ newstr' = escapeSpecialCharacters(str)
    /\ pc' = "escaped"
    /\ UNCHANGED << tidyVars, str >>

-----------------------------------------------------------------------------
(* Inputs.                                                                 *)

\* the sequences over S of length at most n
SeqsUpTo(S, n) == UNION { [ 1..m -> S ] : m \in 0..n }

braced(v) == << "{" >> \o v \o << "}" >>

quoted(v) == << "\"" >> \o v \o << "\"" >>

Field(name, text) == [ name |-> name, text |-> text ]

Entry(type, key, fields) == Chunk("entry", type, key, fields, << >>)

BOOK == << "b", "o", "o", "k" >>

MISC == << "m", "i", "s", "c" >>

\* the state of a call that has not started, for a text and its options
Start(text, o) ==
    /\ opts = o
    /\ input = text
    /\ items = << >>
    /\ keys = << >>
    /\ dois = << >>
    /\ citations = << >>
    /\ abstracts = << >>
    /\ sortIndexes = << >>
    /\ warnings = << >>
    /\ bibtex = << >>
    /\ entries = << >>
    /\ i = 1
    /\ run = 1

(* Entries that are duplicates of one another by key, by DOI and by        *)
(* citation, with fields of the same and of different names.               *)
MergeEntries ==
    { Entry(BOOK, << "a" >>,
            << Field("title", braced(<< "t" >>)),
               Field("author", braced(<< "x" >>)),
               Field("year", << "1" >>) >>),
      Entry(BOOK, << "a" >>,
            << Field("title", braced(<< "u" >>)),
               Field("note", quoted(<< "n" >>)) >>),
      Entry(BOOK, << "b" >>,
            << Field("doi", braced(<< "d" >>)),
               Field("title", braced(<< "u" >>)) >>),
      Entry(MISC, << "a" >>,
            << Field("doi", braced(<< "D" >>)),
               Field("year", << "2" >>) >>),
      Entry(MISC, << "b" >>,
            << Field("Title", braced(<< "T" >>)),
               Field("author", braced(<< "x", ",", "y" >>)),
               Field("note", braced(<< "m" >>)) >>),
      Entry(MISC, << >>,
            << Field("title", braced(<< "t" >>)) >>) }

MergeCriteria ==
    { << >>, << "key" >>, << "doi" >>, << "doi", "key" >>, << "key", "doi" >>,
      DEFAULT_INDEX_STRATEGY }

MergeStrategies == { "first", "last", "combine", "overwrite" }

MergeOptions ==
    { [ DefaultOptions EXCEPT !.merge = m, !.mergeStrategy = s ] :
        m \in MergeCriteria, s \in MergeStrategies }

Init ==
    /\ pc = "parse"
    /\ \E text \in SeqsUpTo(MergeEntries, MaxItems), o \in MergeOptions :
          Start(text, o)
    /\ str = << >>
    /\ newstr = << >>

\* tidy() without sorting: BuildSortIndexes and SortPass are never enabled
Next == Parse \/ ProcessItem \/ SerializeItem \/ Return

Spec == Init /\ [][Next]_vars

(* Direct calls of the escaper.                                            *)
EscapeAlphabet == { BACKSLASH, "#", "&", "a" }

InitEscape ==
    /\ pc = "escape"
    /\ Start(<< >>, DefaultOptions)
    /\ str \in SeqsUpTo(EscapeAlphabet, MaxStrLen)
    /\ newstr = << >>

NextEscape == EscapeCall

SpecEscape == InitEscape /\ [][NextEscape]_vars

(* Entries with equal and with different years, one without a year, and   *)
(* the items that are no entries.                                          *)
SortItems ==
    { Entry(BOOK, << "b" >>, << Field("year", << "2" >>) >>),
      Entry(MISC, << "a" >>, << Field("year", braced(<< "2" >>)) >>),
      Entry(BOOK, << "c" >>, << Field("title", braced(<< "t" >>)) >>),
      Chunk("comment", << >>, << >>, << >>, << "%", "x", "\n" >>),
      Chunk("string", << >>, << "s" >>, << >>, braced(<< "v" >>)) }

SortLists ==
    { DEFAULT_ENTRY_ORDER, << "-key" >>, << "year" >>, << "-year" >>,
      << "year", "key" >>, << "-year", "key" >>, << "year", "-key" >>,
      << "type", "-year", "key" >> }

SortOptions == { [ DefaultOptions EXCEPT !.sort = l ] : l \in SortLists }

\* the parser makes one comment of the text between two other items
noAdjacentComments(text) ==
    \A n \in 1..(Len(text) - 1) :
       ~(text[n].itemtype = "comment" /\ text[n + 1].itemtype = "comment")

InitSort ==
    /\ pc = "parse"
    /\ \E text \in SeqsUpTo(SortItems, MaxSortItems), o \in SortOptions :
          /\ noAdjacentComments(text)
          /\ Start(text, o)
    /\ str = << >>
    /\ newstr = << >>

NextSort ==
    Parse \/ ProcessItem \/ BuildSortIndexes \/ SortPass \/ SerializeItem \/ Return

SpecSort == InitSort /\ [][NextSort]_vars

(* Texts that are tidied twice: page ranges with one and with several     *)
(* dashes, characters to escape and escaped ones, values that numeric and  *)
(* curly rendering change, and duplicates.                                 *)
TwiceItems ==
    { Entry(BOOK, << "a" >>,
            << Field("pages", braced(<< "1", "-", "2", "-", "3" >>)),
               Field("title", braced(<< "a", "#", "b" >>)) >>),
      Entry(MISC, << "b" >>,
            << Field("pages", quoted(<< "4", " ", "-", " ", "5" >>)),
               Field("title", braced(<< "x", BACKSLASH, "&", "y" >>)) >>),
      Entry(BOOK, << "a" >>,
            << Field("doi", braced(<< "d" >>)),
               Field("year", braced(<< "1", "9", "9", "8" >>)) >>),
      Chunk("comment", << >>, << >>, << >>, << "%", "x", "\n" >>) }

TwiceOptions ==
    { [ DefaultOptions EXCEPT !.merge = m, !.sort = l, !.numeric = n, !.curly = c ] :
        m \in { << >>, << "key" >>, DEFAULT_INDEX_STRATEGY },
        l \in { << >>, DEFAULT_ENTRY_ORDER },
        n \in BOOLEAN, c \in BOOLEAN }

InitTwice ==
    /\ pc = "parse"
    /\ \E text \in SeqsUpTo(TwiceItems, MaxTwiceItems), o \in TwiceOptions :
          /\ noAdjacentComments(text)
          /\ Start(text, o)
    /\ str = << >>
    /\ newstr = << >>

NextTwice ==
    \/ Parse
    \/ ProcessItem
    \/ BuildSortIndexes
    \/ SortPass
    \/ SerializeItem
    \/ Return
    \/ TidyAgain

SpecTwice == InitTwice /\ [][NextTwice]_vars

(* Texts with comments that end with no, one and two newlines, with blank  *)
(* lines after an entry and with blanks only, under the four settings of   *)
(* tidyComments and stripComments.                                         *)
Comment(text) == Chunk("comment", << >>, << >>, << >>, text)

CommentItems ==
    { Entry(BOOK, << "a" >>, << Field("title", braced(<< "t" >>)) >>),
      Comment(<< "%", "x", "\n" >>),
      Comment(<< "%", "x", "\n", "\n" >>),
      Comment(<< "%", "x" >>),
      Comment(<< "\n", "\n" >>),
      Comment(<< " " >>) }

CommentOptions ==
    { [ DefaultOptions EXCEPT !.tidyComments = t, !.stripComments = s ] :
        t \in BOOLEAN, s \in BOOLEAN }

InitComments ==
    /\ pc = "parse"
    /\ \E text \in SeqsUpTo(CommentItems, MaxCommentItems), o \in CommentOptions :
          /\ noAdjacentComments(text)
          /\ Start(text, o)
    /\ str = << >>
    /\ newstr = << >>

NextComments == Parse \/ ProcessItem \/ SerializeItem \/ Return

SpecComments == InitComments /\ [][NextComments]_vars

(* Calls whose mergeStrategy is a name outside MergeStrategies,            *)
(* next to calls with combine, on texts with duplicates.                   *)
StrategyOptions ==
    { [ DefaultOptions EXCEPT !.merge = m, !.mergeStrategy = s ] :
        m \in { << "key" >>, << "doi" >> }, s \in { "combine", "newest" } }

InitStrategy ==
    /\ pc = "parse"
    /\ \E text \in SeqsUpTo(MergeEntries, MaxStrategyItems), o \in StrategyOptions :
          Start(text, o)
    /\ str = << >>
    /\ newstr = << >>

NextStrategy == Parse \/ ProcessItem \/ SerializeItem \/ Return

SpecStrategy == InitStrategy /\ [][NextStrategy]_vars

(* One entry with one field, month or year: numbers with and without a     *)
(* leading zero, month names in several cases and other words, in braces,  *)
(* in quotes and bare, under the four settings of numeric and curly.       *)
RenderValues ==
    SeqsUpTo({ "0", "1", "a" }, MaxRenderLen)
    \cup { << "d", "e", "c" >>, << "D", "e", "c" >>, << "d", "e" >>,
           << "D", "E", "C", "E" >> }

RenderTexts ==
    { braced(v) : v \in RenderValues }
    \cup { quoted(v) : v \in RenderValues }
    \cup (RenderValues \ { << >> })

RenderOptions ==
    { [ DefaultOptions EXCEPT !.numeric = n, !.curly = c ] :
        n \in BOOLEAN, c \in BOOLEAN }

InitRender ==
    /\ pc = "parse"
    /\ \E name \in { "month", "year" }, t \in RenderTexts, o \in RenderOptions :
          Start(<< Entry(BOOK, << "a" >>, << Field(name, t) >>) >>, o)
    /\ str = << >>
    /\ newstr = << >>

NextRender == Parse \/ ProcessItem \/ SerializeItem \/ Return

SpecRender == InitRender /\ [][NextRender]_vars

(* One entry with one field, title: values in braces with blanks, tabs and *)
(* newlines and with braces of their own, and concatenations, with and     *)
(* without stripEnclosingBraces.                                           *)
NormalizeAlphabet == { "a", " ", "\t", "\n", "{", "}" }

\* the texts {v} that are one braced value
NormalizeTexts ==
    { braced(v) : v \in { w \in SeqsUpTo(NormalizeAlphabet, MaxValueLen) :
                            matchingBrace(braced(w), 2, 1) = Len(w) + 2 } }
    \cup { << "\"", "a", "\"", " ", "#", " ", "b" >>,
           << "b", " ", " ", "#", "\t", "b", " " >> }

NormalizeOptions ==
    { [ DefaultOptions EXCEPT !.stripEnclosingBraces = b ] : b \in BOOLEAN }

InitNormalize ==
    /\ pc = "parse"
    /\ \E t \in NormalizeTexts, o \in NormalizeOptions :
          Start(<< Entry(BOOK, << "a" >>, << Field("title", t) >>) >>, o)
    /\ str = << >>
    /\ newstr = << >>

NextNormalize == Parse \/ ProcessItem \/ SerializeItem \/ Return

SpecNormalize == InitNormalize /\ [][NextNormalize]_vars

-----------------------------------------------------------------------------
(* C10: the Character Escaper.                                             *)

\* how many backslashes stand in a row right before character n of s
RECURSIVE backslashesBefore(_, _)
backslashesBefore(s, n) ==
    IF n > 1 /\ s[n - 1] = BACKSLASH THEN 1 + backslashesBefore(s, n - 1) ELSE 0

\* character n follows a backslash that no earlier backslash consumed
isEscapedAt(s, n) == backslashesBefore(s, n) % 2 = 1

RECURSIVE flatten(_)
flatten(pieces) ==
    IF pieces = << >> THEN << >> ELSE Head(pieces) \o flatten(Tail(pieces))

\* what the contract makes of character n of s
escapedPiece(s, n) ==
    IF s[n] \in DOMAIN specialCharacters /\ ~isEscapedAt(s, n)
    THEN specialCharacters[s[n]]
    ELSE << s[n] >>

\* C10: escape(text) copies the character after an unconsumed backslash
\* verbatim, the skip lasting one character; it replaces every other table
\* character by its table sequence and leaves every other character as it
\* is.  So no table character of the result is left without its backslash,
\* \& stays \&, # becomes \#, and escaping the result changes nothing.
C10_EscapeNeverDoubleEscapes ==
    pc = "escaped" =>
        /\ newstr = flatten([ n \in DOMAIN str |-> escapedPiece(str, n) ])
        /\ \A n \in DOMAIN newstr :
              newstr[n] \in DOMAIN specialCharacters => isEscapedAt(newstr, n)
        /\ (str = << BACKSLASH, "&" >> => newstr = << BACKSLASH, "&" >>)
        /\ (str = << "#" >> => newstr = << BACKSLASH, "#" >>)
        /\ escapeSpecialCharacters(newstr) = newstr

\* an escaped table character, a bare one and a plain one in one argument
C10_Witness ==
    /\ pc = "escaped"
    /\ str = << BACKSLASH, "&", "#", "a" >>
    /\ newstr = << BACKSLASH, "&", BACKSLASH, "#", "a" >>

-----------------------------------------------------------------------------
(* C1: idempotence.                                                        *)

\* C1 as stated: the text that tidy() makes of the text it returned, under
\* the same options, is the text it was given.
C1_Idempotent ==
    (run = 2 /\ pc = "done") => bibtex = input

-----------------------------------------------------------------------------
(* C2 - C6: duplicates and the four merge strategies.                      *)

isEntry(item) == item.itemtype = "entry"

\* the DUPLICATE_ENTRY warnings, in the order they were pushed
duplicateEntryWarnings ==
    SelectSeq(warnings, LAMBDA w : w.code = "DUPLICATE_ENTRY")

\* the entries of the output text, in order
entryChunks(out) == SelectSeq(out, LAMBDA ch : ch.itemtype = "entry")

\* the items that the serializer has gone past
itemsWritten ==
    CASE pc = "output" -> SubSeq(items, 1, i - 1)
      [] pc \in { "return", "done" } -> items
      [] OTHER -> << >>

\* the entries that are not flagged as dropped
survivors(its) == SelectSeq(its, LAMBDA item : isEntry(item) /\ ~item.duplicate)

keysOf(s) == [ n \in DOMAIN s |-> s[n].key ]

\* C2: an entry classified as a duplicate under a merge-enabled criterion
\* (the entry of a DUPLICATE_ENTRY warning) is flagged as dropped and stays
\* flagged, whatever the merge strategy; the entries of the output text are
\* those of the entries that are not flagged, one each and in order, so a
\* flagged entry is never written; and the returned entry list holds every
\* flagged entry with its flag set.
C2_DroppedDuplicateOnlyInEntryList ==
    /\ \A n \in DOMAIN duplicateEntryWarnings :
          itemOf(items, duplicateEntryWarnings[n].entry).duplicate
    /\ keysOf(entryChunks(bibtex)) = keysOf(survivors(itemsWritten))
    /\ pc = "done" =>
          \A n \in DOMAIN duplicateEntryWarnings :
             \E m \in DOMAIN entries :
                /\ entries[m].id = duplicateEntryWarnings[n].entry
                /\ entries[m].duplicate

\* a run that dropped two duplicates of one entry
C2_Witness ==
    /\ pc = "done"
    /\ Len(duplicateEntryWarnings) = 2
    /\ Len(entries) = 3
    /\ Len(entryChunks(bibtex)) = 1

\* the field map that the first loop gives an entry from its own fields
ownMap(item) == buildFieldMap(opts, item.fields, 1, << >>)

\* the fields of a map as the serializer writes them in the map's order
rendered(fieldMap) ==
    [ n \in DOMAIN fieldMap |->
        [ name |-> fieldMap[n].name,
          text |-> renderValue(opts, fieldMap[n].name, fieldMap[n]) ] ]

\* the pairs of entries that, alone in the input, share a citation key
sharedKeyPairs ==
    { pq \in (DOMAIN items) \X (DOMAIN items) :
        /\ pq[1] < pq[2]
        /\ isEntry(items[pq[1]]) /\ isEntry(items[pq[2]])
        /\ items[pq[1]].key # << >>
        /\ items[pq[1]].key = items[pq[2]].key
        /\ \A n \in DOMAIN items :
              isEntry(items[n]) /\ items[n].key = items[pq[1]].key
                 => n \in { pq[1], pq[2] } }

\* the second entry of the pair was merged into the first: the text has one
\* entry with the key, holding the first entry's fields and then the
\* second's fields of other names, and the pair has one DUPLICATE_ENTRY
\* warning
combinedByKey(p, q) ==
    LET first == ownMap(items[p])
        second == ownMap(items[q])
        added == SelectSeq(second, LAMBDA f : ~mapHas(first, f.name))
        chunks == SelectSeq(entryChunks(bibtex), LAMBDA ch : ch.key = items[p].key)
        warned == SelectSeq(duplicateEntryWarnings,
                            LAMBDA w : w.entry \in { items[p].id, items[q].id })
    IN  /\ Len(chunks) = 1
        /\ chunks[1].fields = rendered(first \o added)
        /\ Len(warned) = 1
        /\ warned[1].entry = items[q].id
        /\ warned[1].duplicateOf = items[p].id

\* C3 as stated: whenever key is merge-enabled (with or without other
\* criteria) and the strategy is combine, two entries that share a citation
\* key come out as one entry with the first's fields followed by the
\* second's new ones, with one DUPLICATE_ENTRY warning.
C3_AsStated ==
    ( /\ pc = "done"
      /\ opts.mergeStrategy = "combine"
      /\ \E n \in DOMAIN opts.merge : opts.merge[n] = "key" )
    => \A pq \in sharedKeyPairs : combinedByKey(pq[1], pq[2])

\* C3, amended: the same when key is the only merge-enabled criterion.
C3_CombineByKeyOnly ==
    ( /\ pc = "done"
      /\ opts.mergeStrategy = "combine"
      /\ opts.merge = << "key" >> )
    => \A pq \in sharedKeyPairs : combinedByKey(pq[1], pq[2])

\* two entries with one key, the second with a field of the same name and
\* another value and with a field the first lacks
C3_Witness ==
    /\ pc = "done"
    /\ opts.mergeStrategy = "combine"
    /\ opts.merge = << "key" >>
    /\ \E pq \in sharedKeyPairs :
          /\ mapHas(ownMap(items[pq[2]]), "note")
          /\ ~mapHas(ownMap(items[pq[1]]), "note")
          /\ mapHas(ownMap(items[pq[1]]), "title")
          /\ mapHas(ownMap(items[pq[2]]), "title")
          /\ mapGet(ownMap(items[pq[1]]), "title")
                # mapGet(ownMap(items[pq[2]]), "title")
          /\ \E n \in DOMAIN bibtex :
                /\ bibtex[n].key = items[pq[1]].key
                /\ Len(bibtex[n].fields) = 4

\* the step is an iteration of the first loop that merged items[i] into
\* the entry at place d
mergesInto(d) ==
    /\ pc = "normalize"
    /\ isEntry(items[i])
    /\ Len(warnings') > Len(warnings)
    /\ warnings'[Len(warnings')].code = "DUPLICATE_ENTRY"
    /\ warnings'[Len(warnings')].duplicateOf = items[d].id

\* every field of the map keeps its value and datatype in the later map
keepsFields(before, after) ==
    \A n \in DOMAIN before :
       /\ mapHas(after, before[n].name)
       /\ mapGet(after, before[n].name) = before[n]

\* C4: under combine, no step of the first loop removes or changes a field
\* that an entry's map holds, so after any sequence of merges every field
\* an entry had before a merge has the same value and datatype; a merge
\* adds only names the entry lacked, each with the absorbed entry's value.
C4_CombineKeepsFields ==
    [][ (opts.mergeStrategy = "combine" /\ pc = "normalize") =>
          \A d \in DOMAIN items :
             (d # i /\ isEntry(items[d])) =>
                /\ keepsFields(items[d].fieldMap, items'[d].fieldMap)
                /\ \A n \in DOMAIN items'[d].fieldMap :
                      ~mapHas(items[d].fieldMap, items'[d].fieldMap[n].name) =>
                         /\ mergesInto(d)
                         /\ mapHas(items'[i].fieldMap, items'[d].fieldMap[n].name)
                         /\ items'[d].fieldMap[n]
                               = mapGet(items'[i].fieldMap,
                                        items'[d].fieldMap[n].name) ]_vars

\* an entry that absorbed, under combine, an entry with another title and
\* with a note: it has its own title and the note
C4_Witness ==
    /\ opts.mergeStrategy = "combine"
    /\ pc = "normalize"
    /\ Len(duplicateEntryWarnings) = 1
    /\ LET kept == itemOf(items, duplicateEntryWarnings[1].duplicateOf)
           absorbed == itemOf(items, duplicateEntryWarnings[1].entry)
       IN  /\ mapHas(ownMap(kept), "title")
           /\ mapHas(ownMap(absorbed), "title")
           /\ mapGet(ownMap(kept), "title") # mapGet(ownMap(absorbed), "title")
           /\ mapGet(kept.fieldMap, "title") = mapGet(ownMap(kept), "title")
           /\ ~mapHas(ownMap(kept), "note")
           /\ mapHas(kept.fieldMap, "note")

\* the entries absorbed by the entry with this id, in the order of the merges
absorbedBy(id) ==
    SelectSeq(duplicateEntryWarnings, LAMBDA w : w.duplicateOf = id)

\* the value of field k that the contract of overwrite gives an entry that
\* absorbed the entries of ws[1..n]: that of the last one that defines k,
\* and its own when none does
RECURSIVE lastDefined(_, _, _, _)
lastDefined(item, ws, n, k) ==
    IF n = 0 THEN mapGet(ownMap(item), k)
    ELSE LET absorbed == ownMap(itemOf(items, ws[n].entry))
         IN  IF mapHas(absorbed, k) THEN mapGet(absorbed, k)
             ELSE lastDefined(item, ws, n - 1, k)

\* C5: under overwrite, a merge leaves the surviving entry with the
\* absorbed entry's value for every field of the absorbed entry and keeps
\* the fields that only the surviving entry had; and every entry of the
\* output text has, for each field, the value of the last entry it absorbed
\* that defines the field (its own when none does).
C5_OverwriteTakesAbsorbedValues ==
    /\ [][ (opts.mergeStrategy = "overwrite" /\ pc = "normalize") =>
             \A d \in DOMAIN items :
                mergesInto(d) =>
                   /\ keepsFields(items'[i].fieldMap, items'[d].fieldMap)
                   /\ \A n \in DOMAIN items[d].fieldMap :
                         ~mapHas(items'[i].fieldMap, items[d].fieldMap[n].name) =>
                            /\ mapHas(items'[d].fieldMap, items[d].fieldMap[n].name)
                            /\ mapGet(items'[d].fieldMap, items[d].fieldMap[n].name)
                                  = items[d].fieldMap[n] ]_vars
    /\ [] ( (opts.mergeStrategy = "overwrite" /\ pc = "done") =>
              \A n \in DOMAIN survivors(items) :
                 LET item == survivors(items)[n]
                     chunk == entryChunks(bibtex)[n]
                 IN  \A m \in DOMAIN chunk.fields :
                        chunk.fields[m].text
                           = renderValue(opts, chunk.fields[m].name,
                                lastDefined(item, absorbedBy(item.id),
                                            Len(absorbedBy(item.id)),
                                            chunk.fields[m].name)) )

\* an entry written after it absorbed, under overwrite, two entries that
\* both define a field it has, with three different values
C5_Witness ==
    /\ opts.mergeStrategy = "overwrite"
    /\ pc = "done"
    /\ \E n \in DOMAIN survivors(items) :
          LET item == survivors(items)[n]
              ws == absorbedBy(item.id)
          IN  /\ Len(ws) = 2
              /\ \A m \in 1..2 : mapHas(ownMap(itemOf(items, ws[m].entry)), "title")
              /\ mapHas(ownMap(item), "title")
              /\ mapGet(ownMap(itemOf(items, ws[1].entry)), "title")
                    # mapGet(ownMap(itemOf(items, ws[2].entry)), "title")
              /\ mapGet(ownMap(itemOf(items, ws[2].entry)), "title")
                    # mapGet(ownMap(item), "title")
              /\ \E m \in DOMAIN entryChunks(bibtex)[n].fields :
                    /\ entryChunks(bibtex)[n].fields[m].name = "title"
                    /\ entryChunks(bibtex)[n].fields[m].text
                          = renderValue(opts, "title",
                               mapGet(ownMap(itemOf(items, ws[2].entry)), "title"))

\* C6 as stated: under last, an entry that absorbed duplicates is written
\* with exactly the field names and values of the last duplicate found and
\* with no field that only the original entry had.
C6_LastReplacesFields ==
    (opts.mergeStrategy = "last" /\ pc = "done") =>
       \A n \in DOMAIN survivors(items) :
          LET item == survivors(items)[n]
              ws == absorbedBy(item.id)
          IN  ws # << >> =>
                 entryChunks(bibtex)[n].fields
                    = rendered(ownMap(itemOf(items, ws[Len(ws)].entry)))

-----------------------------------------------------------------------------
(* C7 - C9: the Sort Planner.                                              *)

\* the sort passes are over
isSorted == opts.sort # << >> /\ pc \in { "output", "return", "done" }

\* the composite comparator: by sort[n], then by sort[n + 1] on a tie, ...
RECURSIVE compositeCompare(_, _, _)
compositeCompare(a, b, n) ==
    IF n > Len(opts.sort) THEN 0
    ELSE LET c == compareItems(sortIndexes, stripDash(opts.sort[n]),
                               startsWithDash(opts.sort[n]), a, b)
         IN  IF c # 0 THEN c ELSE compositeCompare(a, b, n + 1)

\* C7: after one stable sort per key, last key first, the items are in the
\* order of one stable sort of the parser's list by the composite
\* comparator: the same items, each pair in the comparator's order, and in
\* the parser's order (id) where the comparator says equal.
C7_PassesEqualCompositeSort ==
    isSorted =>
       /\ Len(items) = Len(input)
       /\ { items[n].id : n \in DOMAIN items } = DOMAIN input
       /\ \A p, q \in DOMAIN items :
             p < q =>
                LET c == compositeCompare(items[p], items[q], 1)
                IN  c < 0 \/ (c = 0 /\ items[p].id < items[q].id)

\* three keys, two entries that tie on the first and were exchanged by a
\* later one
C7_Witness ==
    /\ pc = "done"
    /\ Len(opts.sort) = 3
    /\ \E p, q \in DOMAIN items :
          /\ p < q
          /\ items[p].id > items[q].id
          /\ isEntry(items[p]) /\ isEntry(items[q])
          /\ compareItems(sortIndexes, stripDash(opts.sort[1]),
                          startsWithDash(opts.sort[1]), items[p], items[q]) = 0

\* the item that the parser put at place n
parsed(n) == itemOf(items, n)

\* the items k..(x - 1) of the parser's list are the run of non-entry items
\* right before the entry at x
isRunBefore(k, x) ==
    /\ k < x
    /\ isEntry(parsed(x))
    /\ \A n \in k..(x - 1) : ~isEntry(parsed(n))

hasField(item, k) == mapHas(ownMap(item), k)

\* C9 as stated: after a sort by a field name, ascending or descending,
\* every entry that lacks the field stands after every entry that has it.
C9_MissingFieldSortsLast ==
    ( /\ isSorted
      /\ Len(opts.sort) = 1
      /\ stripDash(opts.sort[1]) \notin { "key", "type" } )
    => \A p, q \in DOMAIN items :
          ( /\ isEntry(items[p]) /\ isEntry(items[q])
            /\ ~hasField(items[p], stripDash(opts.sort[1]))
            /\ hasField(items[q], stripDash(opts.sort[1])) )
          => q < p


-----------------------------------------------------------------------------
(* C11: the end of the text.                                               *)

\* the text ends with two newlines.  An entry, a string and a preamble are
\* written with "}" and one newline at their end (lines 410, 415, 458), so
\* only the text of a comment can put a second newline there.
endsWithTwoNewlines(out) ==
    /\ out # << >>
    /\ out[Len(out)].itemtype = "comment"
    /\ LET t == out[Len(out)].text
       IN  \/ Len(t) >= 2 /\ t[Len(t)] = "\n" /\ t[Len(t) - 1] = "\n"
           \/ t = << "\n" >> /\ Len(out) > 1

\* C11 as stated: under every configuration the returned text ends with a
\* newline and does not end with two.
C11_EndsWithOneNewline ==
    pc = "done" => endsWithNewline(bibtex) /\ ~endsWithTwoNewlines(bibtex)

-----------------------------------------------------------------------------
(* C12: an unrecognized merge strategy.                                    *)

\* C12 as stated: a call whose mergeStrategy is none of MergeStrategies is
\* rejected before the pipeline runs: it never gets past the place where
\* the options are read, so it parses nothing, processes no item, pushes no
\* warning and writes no text.
C12_UnknownStrategyRejected ==
    opts.mergeStrategy \notin MergeStrategies =>
       /\ pc = "parse"
       /\ items = << >>
       /\ warnings = << >>
       /\ bibtex = << >>

-----------------------------------------------------------------------------
(* C13: the order of the duplicate criteria.                               *)

requested(k) == \E n \in DOMAIN opts.merge : opts.merge[n] = k

\* key first, then the requested criteria in their configured order
keyFirstOrder ==
    << "key" >> \o SelectSeq(uniqueNames(opts.merge, { }), LAMBDA k : k # "key")

\* the requested criteria in their configured order, key among them where
\* it was requested and after them all where it was not
keyLastOrder ==
    uniqueNames(opts.merge, { }) \o (IF requested("key") THEN << >> ELSE << "key" >>)

\* the four Maps of the state
indexes ==
    [ keys |-> keys, dois |-> dois, citations |-> citations,
      abstracts |-> abstracts ]

\* the entry has a signature under criterion k that an earlier entry
\* registered
matches(k, item) ==
    /\ ~hasNoSignature(k, item)
    /\ signature(k, item) \in DOMAIN indexFor(indexes, k)

\* the warning of an entry classified under criterion k
classifiedBy(k, item) ==
    IF requested(k)
    THEN Warning("DUPLICATE_ENTRY", item.id,
                 indexFor(indexes, k)[signature(k, item)])
    ELSE Warning("DUPLICATE_KEY", item.id, 0)

isDuplicateWarning(w) == w.code \in { "DUPLICATE_KEY", "DUPLICATE_ENTRY" }

\* the step leaves the entry it processes classified under the first
\* criterion of the order under which it matches, and unclassified when it
\* matches under none
classifiedInOrder(order) ==
    (pc = "normalize" /\ isEntry(items[i])) =>
       LET item == [ items[i] EXCEPT !.fieldMap = ownMap(items[i]) ]
           found == { n \in DOMAIN order : matches(order[n], item) }
           pushed == SubSeq(warnings', Len(warnings) + 1, Len(warnings'))
       IN  IF found = { }
           THEN SelectSeq(pushed, isDuplicateWarning) = << >>
           ELSE LET first == CHOOSE n \in found : \A m \in found : n <= m
                IN  SelectSeq(pushed, isDuplicateWarning)
                       = << classifiedBy(order[first], item) >>

\* C13 as stated: key is checked before every requested criterion, so an
\* entry that duplicates an earlier one by key and by DOI, key not being
\* requested, is classified by key.
C13_KeyCheckedFirst == [][ classifiedInOrder(keyFirstOrder) ]_vars

\* C13, amended: the requested criteria are checked in their configured
\* order and key, when it was not requested, after them all; an entry that
\* duplicates an earlier one by key and by DOI, key not being requested, is
\* classified by DOI.
C13_KeyCheckedLast == [][ classifiedInOrder(keyLastOrder) ]_vars

\* two entries with one key and one DOI signature, DOI being the only
\* requested criterion: the second is a DUPLICATE_ENTRY of the first
C13_Witness ==
    /\ pc = "done"
    /\ opts.merge = << "doi" >>
    /\ Len(items) = 2
    /\ items[1].key = items[2].key
    /\ items[1].key # << >>
    /\ alphaNum(valueOf(ownMap(items[1]), "doi")) # << >>
    /\ alphaNum(valueOf(ownMap(items[1]), "doi"))
          = alphaNum(valueOf(ownMap(items[2]), "doi"))
    /\ warnings = << Warning("DUPLICATE_ENTRY", 2, 1) >>

-----------------------------------------------------------------------------
(* C14: the first matching criterion wins.                                 *)

\* the four Maps after the step
indexesNext ==
    [ keys |-> keys', dois |-> dois', citations |-> citations',
      abstracts |-> abstracts' ]

UniqueKey == { "doi", "key", "abstract", "citation" }

\* C14: in the step that processes an entry, no registration of an earlier
\* entry is replaced; the entry is registered under exactly the criteria
\* that are checked before the first one it matches under (all of them
\* when it matches under none) and for which it has a signature, so under
\* no criterion after the match and under none that already holds its
\* signature; at most one duplicate warning is pushed; and at most one
\* other entry is changed by a merge.
C14_FirstMatchWins ==
    [][ (pc = "normalize" /\ isEntry(items[i])) =>
          LET item == [ items[i] EXCEPT !.fieldMap = ownMap(items[i]) ]
              order == keyLastOrder
              found == { n \in DOMAIN order : matches(order[n], item) }
              last == IF found = { } THEN Len(order)
                      ELSE (CHOOSE n \in found : \A m \in found : n <= m) - 1
              checked == { order[n] : n \in 1..last }
              pushed == SubSeq(warnings', Len(warnings) + 1, Len(warnings'))
          IN  /\ \A k \in UniqueKey :
                    LET before == indexFor(indexes, k)
                        after == indexFor(indexesNext, k)
                    IN  /\ \A sig \in DOMAIN before :
                              sig \in DOMAIN after /\ after[sig] = before[sig]
                        /\ \A sig \in DOMAIN after \ DOMAIN before :
                              /\ k \in checked
                              /\ ~hasNoSignature(k, item)
                              /\ sig = signature(k, item)
                              /\ after[sig] = item.id
                        /\ (k \in checked /\ ~hasNoSignature(k, item)) =>
                              signature(k, item) \in DOMAIN after \ DOMAIN before
              /\ Len(SelectSeq(pushed, isDuplicateWarning)) <= 1
              /\ Cardinality({ d \in DOMAIN items :
                                 d # i /\ items'[d] # items[d] }) <= 1 ]_vars

\* an entry that matched an earlier one by key, the first criterion, and
\* whose DOI nobody had registered: the Map of DOIs stays empty
C14_Witness ==
    /\ pc = "done"
    /\ opts.merge = << "key", "doi" >>
    /\ Len(items) = 2
    /\ alphaNum(valueOf(ownMap(items[1]), "doi")) = << >>
    /\ alphaNum(valueOf(ownMap(items[2]), "doi")) # << >>
    /\ warnings = << Warning("DUPLICATE_ENTRY", 2, 1) >>
    /\ DOMAIN dois = { }

-----------------------------------------------------------------------------
(* C15: a duplicate key that is not merged, and a missing key.             *)

duplicateKeyWarnings ==
    SelectSeq(warnings, LAMBDA w : w.code = "DUPLICATE_KEY")

\* C15: (a) a step of the first loop pushes a DUPLICATE_KEY warning exactly
\* when key is not merge-enabled and is the criterion the entry is
\* classified under; the step then pushes no DUPLICATE_ENTRY warning,
\* flags neither the entry nor the earlier entry with the key, and changes
\* no item but for the field map that the entry gets from its own fields.
\* (b) At the end both entries of every DUPLICATE_KEY warning are unflagged
\* and written to the text.  (c) An entry without a key gets a MISSING_KEY
\* warning and no DUPLICATE_KEY warning, and the Map of keys never holds
\* the empty key.
C15_DuplicateKeyLeavesBothIntact ==
    /\ [][ (pc = "normalize" /\ isEntry(items[i])) =>
             LET item == [ items[i] EXCEPT !.fieldMap = ownMap(items[i]) ]
                 pushed == SubSeq(warnings', Len(warnings) + 1, Len(warnings'))
                 byKey == /\ ~requested("key")
                          /\ matches("key", item)
                          /\ \A n \in DOMAIN opts.merge :
                                ~matches(opts.merge[n], item)
             IN  /\ byKey <=> \E n \in DOMAIN pushed :
                                 pushed[n].code = "DUPLICATE_KEY"
                 /\ byKey =>
                       /\ SelectSeq(pushed, isDuplicateWarning)
                             = << Warning("DUPLICATE_KEY", item.id, 0) >>
                       /\ items' = [ items EXCEPT ![i] = item ]
                       /\ ~items'[i].duplicate
                       /\ ~itemOf(items', keys[item.key]).duplicate
                       /\ keys' = keys
                 /\ item.key = << >> =>
                       /\ pushed # << >>
                       /\ pushed[1] = Warning("MISSING_KEY", item.id, 0)
                       /\ keys' = keys
                       /\ \A n \in DOMAIN pushed :
                             pushed[n].code # "DUPLICATE_KEY"
                 /\ item.key # << >> =>
                       \A n \in DOMAIN pushed : pushed[n].code # "MISSING_KEY"
          ]_vars
    /\ [] ( /\ << >> \notin DOMAIN keys
            /\ pc = "done" =>
                  \A n \in DOMAIN duplicateKeyWarnings :
                     LET later == itemOf(items, duplicateKeyWarnings[n].entry)
                         earlier == itemOf(items, keys[later.key])
                         sv == survivors(items)
                     IN  /\ earlier.id < later.id
                         /\ \E p, q \in DOMAIN sv :
                               /\ sv[p].id = earlier.id
                               /\ sv[q].id = later.id
                               /\ entryChunks(bibtex)[p].key = later.key
                               /\ entryChunks(bibtex)[q].key = later.key )

\* two entries with one key and an entry without a key, key not being
\* merge-enabled: all three are written
C15_Witness ==
    /\ pc = "done"
    /\ ~requested("key")
    /\ warnings = << Warning("DUPLICATE_KEY", 2, 0), Warning("MISSING_KEY", 3, 0) >>
    /\ Len(entryChunks(bibtex)) = 3
    /\ Len(survivors(items)) = 3

-----------------------------------------------------------------------------
(* C16: the rendering of a value.                                          *)

\* the rules as stated, in order; a bare non-negative integer is a
\* non-empty string of decimal digits
renderedAsStated(o, k, field) ==
    LET val == field.value
        dig3 == toLowerCase(Slice(val, 3))
    IN  IF o.numeric /\ isNumberText(val) THEN val
        ELSE IF o.numeric /\ k = "month" /\ dig3 \in MONTHS THEN dig3
        ELSE IF field.datatype = "braced" \/ o.curly THEN braced(val)
        ELSE IF field.datatype = "quoted" THEN quoted(val)
        ELSE val

\* C16 as stated: every field of every entry of the text is written by
\* the stated rules, so with numeric rendering every string of digits, 0
\* among them, is written bare.
C16_RenderedAsStated ==
    pc = "done" =>
       \A n \in DOMAIN survivors(items) :
          LET fieldMap == ownMap(survivors(items)[n])
              chunk == entryChunks(bibtex)[n]
          IN  /\ Len(chunk.fields) = Len(fieldMap)
              /\ \A m \in DOMAIN fieldMap :
                    /\ chunk.fields[m].name = fieldMap[m].name
                    /\ chunk.fields[m].text
                          = renderedAsStated(opts, fieldMap[m].name, fieldMap[m])

-----------------------------------------------------------------------------
(* C17: stripEnclosingBraces.                                              *)

\* the whole value is wrapped in one pair of braces: it starts with a
\* brace that closes at its last character
whollyWrapped(v) ==
    /\ Len(v) >= 2
    /\ v[1] = "{"
    /\ matchingBrace(v, 2, 1) = Len(v)

\* the value as stated: without the pair when it is wholly wrapped
strippedAsStated(v) ==
    IF whollyWrapped(v) THEN SubSeq(v, 2, Len(v) - 1) ELSE v

hasWhitespace(v) == \E n \in DOMAIN v : v[n] \in Whitespace

\* C17 as stated: with stripEnclosingBraces, a braced value that is wholly
\* wrapped in an extra pair of braces is written without that pair, also
\* when the wrapped text has braces of its own, and every other value is
\* written as it was.
C17_StripsWhollyWrapped ==
    (pc = "done" /\ opts.stripEnclosingBraces) =>
       \A n \in DOMAIN items :
          \A m \in DOMAIN items[n].fields :
             LET field == items[n].fields[m]
             IN  (field.datatype = "braced" /\ ~hasWhitespace(field.value)) =>
                    entryChunks(bibtex)[n].fields[m].text
                       = braced(strippedAsStated(field.value))

-----------------------------------------------------------------------------
(* C18: whitespace.                                                        *)

\* every run of whitespace of the value is one space, and none is at its
\* start or end
whitespaceCollapsed(v) ==
    /\ \A n \in DOMAIN v : v[n] \in Whitespace => v[n] = " "
    /\ \A n \in 1..(Len(v) - 1) : ~(v[n] = " " /\ v[n + 1] = " ")
    /\ v # << >> => (v[1] # " " /\ v[Len(v)] # " ")

\* C18 as stated: the normalized value of a field that is no concatenation
\* has every run of whitespace collapsed to one space and none at its
\* ends; that of a concatenation is its raw text, trimmed when stored.
C18_WhitespaceCollapsed ==
    pc = "done" =>
       \A n \in DOMAIN items :
          \A m \in DOMAIN items[n].fields :
             LET field == items[n].fields[m]
                 value == ownMap(items[n])[m].value
             IN  IF field.datatype = "concatinate"
                 THEN value = trim(field.raw)
                 ELSE whitespaceCollapsed(value)

-----------------------------------------------------------------------------
(* C19: the entry that absorbs a duplicate is written.                     *)

\* the field names of the entries of the text
namesWritten ==
    UNION { { bibtex[n].fields[m].name : m \in DOMAIN bibtex[n].fields } :
              n \in { k \in DOMAIN bibtex : bibtex[k].itemtype = "entry" } }

\* C19 as stated: at the end of the run no entry that a DUPLICATE_ENTRY
\* warning names as duplicateOf is flagged as dropped, and under combine
\* and overwrite every field name of an absorbed entry is in the text.
C19_AbsorbingEntryIsWritten ==
    pc = "done" =>
       \A n \in DOMAIN duplicateEntryWarnings :
          LET w == duplicateEntryWarnings[n]
          IN  /\ ~itemOf(items, w.duplicateOf).duplicate
              /\ opts.mergeStrategy \in { "combine", "overwrite" } =>
                    \A m \in DOMAIN ownMap(itemOf(items, w.entry)) :
                       ownMap(itemOf(items, w.entry))[m].name \in namesWritten

-----------------------------------------------------------------------------
(* C20: the entries of the text are no duplicates of one another.          *)

\* an entry of the text with the map of its final field values, as the
\* fields read back from the text give it
writtenEntry(chunk) ==
    [ key |-> chunk.key,
      fieldMap |-> [ m \in DOMAIN chunk.fields |->
                       [ name |-> chunk.fields[m].name,
                         value |-> parseField(chunk.fields[m]).value,
                         datatype |-> parseField(chunk.fields[m]).datatype ] ] ]

\* C20 as stated: at the end of a run no two entries of the text have the
\* same signature under a merge-enabled criterion, the signatures being
\* taken from the field values they are written with.
C20_WrittenEntriesDiffer ==
    pc = "done" =>
       \A p, q \in DOMAIN entryChunks(bibtex) :
          p < q =>
             LET a == writtenEntry(entryChunks(bibtex)[p])
                 b == writtenEntry(entryChunks(bibtex)[q])
             IN  \A n \in DOMAIN opts.merge :
                    LET k == opts.merge[n]
                    IN  ~ ( /\ ~hasNoSignature(k, a)
                            /\ ~hasNoSignature(k, b)
                            /\ signature(k, a) = signature(k, b) )

-----------------------------------------------------------------------------
(* C21: the items after the last entry.                                    *)

\* the item is no entry and the parser found it after every entry of the
\* input, so it precedes none
followsLastEntry(item) ==
    /\ ~isEntry(item)
    /\ \A n \in DOMAIN items : isEntry(items[n]) => items[n].id < item.id

\* C21 as stated: once the items are sorted, ascending or descending, the
\* items that followed the last entry of the input stand after every
\* entry, in the order the input had them in.
C21_TrailingItemsStayLast ==
    isSorted =>
       \A p, q \in DOMAIN items :
          followsLastEntry(items[p]) =>
             /\ isEntry(items[q]) => q < p
             /\ (followsLastEntry(items[q]) /\ items[q].id < items[p].id) => q < p

=============================================================================
